---- MODULE Spec2Model ----
(***************************************************************************)
(* Route tab of app2.py: an uploaded table is filtered, turned into a      *)
(* location list and a distance matrix, handed to the routing solver, and  *)
(* the solved tour is projected back onto the rows (StopOrder), shown,     *)
(* linked (Google Maps URL, at most MAX_WAYPOINTS waypoints) and exported. *)
(*                                                                         *)
(* Conventions.  Python lists are sequences (position p of the list is     *)
(* element p+1 of the sequence); the values they hold (node indices,       *)
(* iloc positions) keep Python's 0-based numbering.  A coordinate is an    *)
(* integer number of 1e-5 degrees.  A cell of a DataFrame is a record      *)
(* [t, v]: t is "float", "nan", "int" or "str" and v the number (for a     *)
(* string: the number that identifies the text).                           *)
(***************************************************************************)
EXTENDS Integers, Sequences, FiniteSets, TLC

\* ----------------------------------------------------------------- bounds
MaxRows == 9
MaxMissing == 1
MaxPermStops == 3

\* ------------------------------------------------------ program constants
MAX_WAYPOINTS == 8
OFFICE_LOCATION == <<4165860, -9153020>>

VARIABLES pc, df_raw, df, locations, distance_matrix, solution, route,
          df_ordered, maps_url, out

vars == <<pc, df_raw, df, locations, distance_matrix, solution, route,
          df_ordered, maps_url, out>>

\* --------------------------------------------------------------- values
None == [none |-> TRUE]
NaN == [t |-> "nan", v |-> 0]
Float(x) == [t |-> "float", v |-> x]
IntCell(x) == [t |-> "int", v |-> x]
Str(x) == [t |-> "str", v |-> x]
isna(cell) == cell.t = "nan"

NoFrame == [columns |-> <<>>, rows |-> <<>>]
NoMatrix == <<>>

Range(s) == {s[k] : k \in 1..Len(s)}
Min(a, b) == IF a < b THEN a ELSE b

\* elements first .. last of s, as far as they exist (Python's slices clamp)
Slice(s, first, last) ==
  [k \in 1..(Min(last, Len(s)) - first + 1) |-> s[k + first - 1]]
Abs(x) == IF x < 0 THEN -x ELSE x

\* ------------------------------------------------------ uploaded tables
ColumnLists ==
  { <<"Latitude", "Longitude">>,
    <<"Name", "Latitude", "Longitude", "NumberofBeds">>,
    <<"Name", "Address", "Latitude", "Longitude">>,
    <<"Name", "Longitude">>,
    <<"Address", "Latitude">>,
    <<"Name", "NumberofBeds">>,
    <<"StopOrder", "Name", "Latitude", "Longitude">> }

\* "line": distinct points north of the office; "pairs": points that
\* coincide two by two, less than a metre from each other across pairs;
\* "polar": like "line" with a latitude of 91 degrees in the first row
Layouts == {"line", "pairs", "polar"}

LatOf(layout, k) ==
  CASE layout = "line"  -> OFFICE_LOCATION[1] + 2 * k
    [] layout = "pairs" -> OFFICE_LOCATION[1] + 10 * (k \div 4)
    [] layout = "polar" -> IF k = 1 THEN 9100000
                           ELSE OFFICE_LOCATION[1] + 2 * k

LngOf(layout, k) ==
  CASE layout = "line"  -> OFFICE_LOCATION[2]
    [] layout = "pairs" -> OFFICE_LOCATION[2] + ((k \div 2) % 2)
    [] layout = "polar" -> OFFICE_LOCATION[2]

\* a defect list names rows whose Latitude or Longitude is empty
DefectKinds == {"lat", "lng"}
DefectLists(n) ==
  UNION { [1..len -> (1..n) \X DefectKinds] : len \in 0..MaxMissing }

LatMissing(defects, k) ==
  \E d \in Range(defects) : d[1] = k /\ d[2] = "lat"
LngMissing(defects, k) ==
  \E d \in Range(defects) : d[1] = k /\ d[2] = "lng"

CellOf(col, layout, defects, k) ==
  CASE col = "Latitude" ->
         IF LatMissing(defects, k) THEN NaN ELSE Float(LatOf(layout, k))
    [] col = "Longitude" ->
         IF LngMissing(defects, k) THEN NaN ELSE Float(LngOf(layout, k))
    [] col = "Name" -> Str(100 + k)
    [] col = "Address" -> Str(200 + k)
    [] col = "NumberofBeds" -> IF k % 3 = 0 THEN NaN ELSE IntCell(k % 3)
    [] col = "StopOrder" -> IntCell(10 * k)

\* pd.read_csv gives the rows the index labels 0 .. n-1
MakeFrame(cols, n, layout, defects) ==
  [columns |-> cols,
   rows |-> [k \in 1..n |->
               [idx |-> k - 1,
                cells |-> [c \in Range(cols) |->
                             CellOf(c, layout, defects, k)]]]]

Uploads ==
  { MakeFrame(cols, n, layout, defects) :
      cols \in ColumnLists, layout \in Layouts,
      <<n, defects>> \in UNION { {n} \X DefectLists(n) : n \in 0..MaxRows } }

Init ==
  /\ pc = "start"
  /\ df_raw \in Uploads \cup {None}
  /\ df = NoFrame
  /\ locations = <<>>
  /\ distance_matrix = NoMatrix
  /\ solution = None
  /\ route = <<>>
  /\ df_ordered = NoFrame
  /\ maps_url = <<>>
  /\ out = <<>>

\* df_raw is None: the route tab only asks for an upload (lines 329-330)
NoUpload ==
  /\ pc = "start"
  /\ df_raw = None
  /\ out' = <<[kind |-> "info", text |-> "upload"]>>
  /\ pc' = "done"
  /\ UNCHANGED <<df_raw, df, locations, distance_matrix, solution, route,
                 df_ordered, maps_url>>

\* ------------------------------------------------------ distance matrix
RECURSIVE isqrt_between(_, _, _)
isqrt_between(x, lo, hi) ==
  IF lo >= hi THEN lo
  ELSE LET mid == (lo + hi + 1) \div 2
       IN  IF mid * mid <= x THEN isqrt_between(x, mid, hi)
           ELSE isqrt_between(x, lo, mid - 1)

\* largest r with r * r <= x
isqrt(x) == isqrt_between(x, 0, 46340)

\* geopy accepts a latitude only within [-90, 90] degrees and raises
\* ValueError otherwise
ValidPoint(p) == Abs(p[1]) <= 90 * 100000

\* geodesic(from_node, to_node), in millimetres: near the office 1e-5 degree
\* of latitude is 1113 mm long and 1e-5 degree of longitude 832 mm
geodesic_mm(from_node, to_node) ==
  LET dlat == 1113 * (to_node[1] - from_node[1])
      dlng == 832 * (to_node[2] - from_node[2])
  IN  isqrt(dlat * dlat + dlng * dlng)

\* int(geodesic(from_node, to_node).meters)
int_meters(from_node, to_node) == geodesic_mm(from_node, to_node) \div 1000

\* geodesic is called for every pair i # j
compute_distance_matrix_raises(locs) ==
  \E i, j \in 1..Len(locs) :
     i # j /\ (~ValidPoint(locs[i]) \/ ~ValidPoint(locs[j]))

\* only the upper triangle is filled in
compute_distance_matrix_upper(locs) ==
  [i \in 0..(Len(locs) - 1) |->
     [j \in i..(Len(locs) - 1) |->
        IF i = j THEN 0 ELSE int_meters(locs[i + 1], locs[j + 1])]]

\* matrix[i][j], i and j counted from 0 as enumerate does
compute_distance_matrix(locs) ==
  [i \in 0..(Len(locs) - 1) |->
     [j \in 0..(Len(locs) - 1) |->
        IF i = j THEN 0 ELSE int_meters(locs[i + 1], locs[j + 1])]]

\* ------------------------------------------------------- table handling
\* df.rename(columns={"Name": "Address"}) when there is no Address column
rename_name(frame) ==
  IF "Address" \notin Range(frame.columns) /\ "Name" \in Range(frame.columns)
  THEN LET new(c) == IF c = "Name" THEN "Address" ELSE c
           old(c) == IF c = "Address" THEN "Name" ELSE c
       IN  [columns |-> [k \in 1..Len(frame.columns) |-> new(frame.columns[k])],
            rows |-> [k \in 1..Len(frame.rows) |->
                        [idx |-> frame.rows[k].idx,
                         cells |-> [c \in {new(x) : x \in Range(frame.columns)} |->
                                      frame.rows[k].cells[old(c)]]]]]
  ELSE frame

IsMissing(frame, c) == c \notin Range(frame.columns)

\* only the first missing column is kept
missing_latlng_first(frame) ==
  Slice(SelectSeq(<<"Latitude", "Longitude">>, LAMBDA c : IsMissing(frame, c)), 1, 1)

missing_latlng(frame) ==
  SelectSeq(<<"Latitude", "Longitude">>, LAMBDA c : IsMissing(frame, c))

HasCoordinates(r) == ~isna(r.cells["Latitude"]) /\ ~isna(r.cells["Longitude"])

\* df.dropna(subset=["Latitude", "Longitude"]): index labels are kept
dropna(frame) ==
  [columns |-> frame.columns, rows |-> SelectSeq(frame.rows, HasCoordinates)]

\* [OFFICE_LOCATION] + list(zip(df["Latitude"], df["Longitude"]))
make_locations(frame) ==
  <<OFFICE_LOCATION>> \o
  [k \in 1..Len(frame.rows) |->
     <<frame.rows[k].cells["Latitude"].v, frame.rows[k].cells["Longitude"].v>>]

\* lines 338-340
MissingColumns ==
  /\ pc = "start"
  /\ df_raw # None
  /\ missing_latlng(rename_name(df_raw)) # <<>>
  /\ df' = rename_name(df_raw)
  /\ out' = <<[kind |-> "error", text |-> "missing columns",
               cols |-> missing_latlng(rename_name(df_raw))]>>
  /\ pc' = "done"
  /\ UNCHANGED <<df_raw, locations, distance_matrix, solution, route,
                 df_ordered, maps_url>>

\* lines 332-347, the matrix is returned
BuildMatrix ==
  /\ pc = "start"
  /\ df_raw # None
  /\ missing_latlng(rename_name(df_raw)) = <<>>
  /\ LET d == dropna(rename_name(df_raw))
         locs == make_locations(d)
     IN  /\ ~compute_distance_matrix_raises(locs)
         /\ df' = d
         /\ locations' = locs
         /\ distance_matrix' = compute_distance_matrix(locs)
  /\ pc' = "solve"
  /\ UNCHANGED <<df_raw, solution, route, df_ordered, maps_url, out>>

\* lines 332-347, geodesic raises inside compute_distance_matrix
MatrixCrash ==
  /\ pc = "start"
  /\ df_raw # None
  /\ missing_latlng(rename_name(df_raw)) = <<>>
  /\ LET d == dropna(rename_name(df_raw))
         locs == make_locations(d)
     IN  /\ compute_distance_matrix_raises(locs)
         /\ df' = d
         /\ locations' = locs
  /\ pc' = "crashed"
  /\ UNCHANGED <<df_raw, distance_matrix, solution, route, df_ordered,
                 maps_url, out>>

\* --------------------------------------------------------------- solver
\* RoutingIndexManager(len(locations), 1, 0): indices 0 .. num_nodes-1 are
\* the nodes, index num_nodes is the end of the vehicle, at the depot
Start(num_nodes) == 0
IsEnd(index, num_nodes) == index = num_nodes
IndexToNode(index, num_nodes) == IF index = num_nodes THEN 0 ELSE index

Perms(n) == {p \in [1..n -> 1..n] : \A a, b \in 1..n : p[a] = p[b] => a = b}

Rotation(n, r) == [k \in 1..n |-> ((k - 1 + r) % n) + 1]
Reverse(p) == [k \in 1..Len(p) |-> p[Len(p) + 1 - k]]

\* the visiting orders the solver is let to return for n stops: every order
\* up to MaxPermStops stops, beyond that the rotations of the upload order
\* and the reversed upload order
Orders(n) ==
  IF n <= MaxPermStops THEN Perms(n)
  ELSE {Rotation(n, r) : r \in 0..(n - 1)} \cup {Reverse(Rotation(n, 0))}

PosIn(p, i) == CHOOSE k \in 1..Len(p) : p[k] = i

\* the assignment of the NextVars for the path start -> p[1] -> .. -> end
Assignment(p) ==
  LET n == Len(p)
  IN  [next |-> [i \in 0..n |->
                   IF i = 0 THEN (IF n = 0 THEN n + 1 ELSE p[1])
                   ELSE IF PosIn(p, i) = n THEN n + 1
                   ELSE p[PosIn(p, i) + 1]]]

Solutions(num_nodes) == {Assignment(p) : p \in Orders(num_nodes - 1)}

RECURSIVE get_route_from(_, _, _, _)
get_route_from(index, acc, num_nodes, sol) ==
  IF IsEnd(index, num_nodes)
  THEN Append(acc, IndexToNode(index, num_nodes))
  ELSE get_route_from(sol.next[index],
                      Append(acc, IndexToNode(index, num_nodes)),
                      num_nodes, sol)

\* get_route without line 35: the node of the end index is not appended
get_route_without_end(num_nodes, sol) ==
  LET r == get_route_from(Start(num_nodes), <<>>, num_nodes, sol)
  IN  Slice(r, 1, Len(r) - 1)

get_route(num_nodes, sol) == get_route_from(Start(num_nodes), <<>>, num_nodes, sol)

\* routing.SolveWithParameters(search_params): a solution or None (line 368)
Solve ==
  /\ pc = "solve"
  /\ solution' \in Solutions(Len(locations)) \cup {None}
  /\ pc' = "solved"
  /\ UNCHANGED <<df_raw, df, locations, distance_matrix, route, df_ordered,
                 maps_url, out>>

\* ----------------------------------------------------------- formatting
Digit(d) == <<"0", "1", "2", "3", "4", "5", "6", "7", "8", "9">>[d + 1]

RECURSIVE digits_of(_)
digits_of(n) ==
  IF n < 10 THEN <<Digit(n)>> ELSE Append(digits_of(n \div 10), Digit(n % 10))

RECURSIVE strip_zeros(_)
strip_zeros(ds) ==
  IF Len(ds) > 1 /\ ds[Len(ds)] = "0" THEN strip_zeros(SubSeq(ds, 1, Len(ds) - 1))
  ELSE ds

\* the five decimals of a coordinate, without trailing zeros
fraction_of(f) == strip_zeros(SubSeq(digits_of(100000 + f), 2, 6))

\* str(x) of a float given in 1e-5 units: shortest digits, at least "d.d"
fmt_float(x) ==
  (IF x < 0 THEN <<"-">> ELSE <<>>) \o digits_of(Abs(x) \div 100000)
  \o <<".">> \o fraction_of(Abs(x) % 100000)

fmt_int(x) == (IF x < 0 THEN <<"-">> ELSE <<>>) \o digits_of(Abs(x))

\* the text of a cell in f-strings and in to_csv
to_text(cell) ==
  CASE cell.t = "float" -> fmt_float(cell.v)
    [] cell.t = "int" -> fmt_int(cell.v)
    [] cell.t = "nan" -> <<>>
    [] cell.t = "str" -> <<"text">> \o digits_of(cell.v)

RECURSIVE join(_, _)
join(sep, parts) ==
  IF parts = <<>> THEN <<>>
  ELSE IF Len(parts) = 1 THEN parts[1]
  ELSE parts[1] \o <<sep>> \o join(sep, Tail(parts))

\* ------------------------------------------------------------ projection
\* route[1:-1]
stop_sequence_of(r) == Slice(r, 2, Len(r) - 1)

\* [i - 2 for i in stop_sequence]: the offset applied a second time
iloc_positions_shifted_twice(stop_sequence) ==
  [k \in 1..Len(stop_sequence) |-> stop_sequence[k] - 2]

\* [i - 1 for i in stop_sequence]
iloc_positions(stop_sequence) ==
  [k \in 1..Len(stop_sequence) |-> stop_sequence[k] - 1]

\* iloc raises IndexError for a position outside [-n, n)
iloc_raises(frame, positions) ==
  \E k \in 1..Len(positions) :
     positions[k] >= Len(frame.rows) \/ positions[k] < -Len(frame.rows)

\* frame.iloc[positions]: a negative position counts from the end
iloc(frame, positions) ==
  [columns |-> frame.columns,
   rows |-> [k \in 1..Len(positions) |->
               IF positions[k] >= 0 THEN frame.rows[positions[k] + 1]
               ELSE frame.rows[Len(frame.rows) + positions[k] + 1]]]

\* frame.insert(0, "StopOrder", range(1, len(frame) + 1)) raises ValueError
\* when the column exists
insert_raises(frame) == "StopOrder" \in Range(frame.columns)

\* insert with range(0, len(frame)): the numbering starts at 0
insert_stop_order_from_zero(frame) ==
  [columns |-> <<"StopOrder">> \o frame.columns,
   rows |-> [k \in 1..Len(frame.rows) |->
               [idx |-> frame.rows[k].idx,
                cells |-> [c \in Range(frame.columns) \cup {"StopOrder"} |->
                             IF c = "StopOrder" THEN IntCell(k - 1)
                             ELSE frame.rows[k].cells[c]]]]]

insert_stop_order(frame) ==
  [columns |-> <<"StopOrder">> \o frame.columns,
   rows |-> [k \in 1..Len(frame.rows) |->
               [idx |-> frame.rows[k].idx,
                cells |-> [c \in Range(frame.columns) \cup {"StopOrder"} |->
                             IF c = "StopOrder" THEN IntCell(k)
                             ELSE frame.rows[k].cells[c]]]]]

project(frame, r) ==
  insert_stop_order(iloc(frame, iloc_positions(stop_sequence_of(r))))

project_raises(frame, r) ==
  \/ iloc_raises(frame, iloc_positions(stop_sequence_of(r)))
  \/ insert_raises(frame)

\* the first of "Address", "Name", "address" among the columns, if any
address_col(frame) ==
  Slice(SelectSeq(<<"Address", "Name", "address">>,
                  LAMBDA c : c \in Range(frame.columns)), 1, 1)

cols_to_show(frame) ==
  <<"StopOrder">> \o address_col(frame)
  \o SelectSeq(<<"Latitude", "Longitude">>, LAMBDA c : c \in Range(frame.columns))

\* frame[cols]
select_columns(frame, cols) ==
  [columns |-> cols,
   rows |-> [k \in 1..Len(frame.rows) |->
               [idx |-> frame.rows[k].idx,
                cells |-> [c \in Range(cols) |-> frame.rows[k].cells[c]]]]]

\* head that keeps every row
head_all(frame, count) == frame

\* frame.head(count)
head(frame, count) ==
  [columns |-> frame.columns,
   rows |-> Slice(frame.rows, 1, count)]

\* "|".join(f"{row['Latitude']},{row['Longitude']}" ...)
waypoints_of(frame) ==
  join("|", [k \in 1..Len(frame.rows) |->
               to_text(frame.rows[k].cells["Latitude"]) \o <<",">>
               \o to_text(frame.rows[k].cells["Longitude"])])

origin_coord == fmt_float(OFFICE_LOCATION[1]) \o <<",">> \o fmt_float(OFFICE_LOCATION[2])
dest_coord == origin_coord

make_maps_url(frame) ==
  <<"https://www.google.com/maps/dir/?api=1", "&origin=">> \o origin_coord
  \o <<"&destination=">> \o dest_coord
  \o <<"&waypoints=">> \o waypoints_of(head(frame, MAX_WAYPOINTS))
  \o <<"&travelmode=driving">>

\* frame.to_csv(index=False): the header and one line of cell texts per row
to_csv(frame) ==
  [header |-> frame.columns,
   lines |-> [k \in 1..Len(frame.rows) |->
                [c \in 1..Len(frame.columns) |->
                   to_text(frame.rows[k].cells[frame.columns[c]])]]]

\* the notice with >= in place of >
overflow_notice_at_cap(frame) ==
  IF Len(frame.rows) >= MAX_WAYPOINTS
  THEN <<[kind |-> "info", text |-> "url limited",
          limit |-> MAX_WAYPOINTS, stops |-> Len(frame.rows)]>>
  ELSE <<>>

overflow_notice(frame) ==
  IF Len(frame.rows) > MAX_WAYPOINTS
  THEN <<[kind |-> "info", text |-> "url limited",
          limit |-> MAX_WAYPOINTS, stops |-> Len(frame.rows)]>>
  ELSE <<>>

\* lines 370-426: the solver returned a solution
Project ==
  /\ pc = "solved"
  /\ solution # None
  /\ LET r == get_route(Len(locations), solution)
         ordered == project(df, r)
         url == make_maps_url(ordered)
     IN  /\ ~project_raises(df, r)
         /\ route' = r
         /\ df_ordered' = ordered
         /\ maps_url' = url
         /\ out' = <<[kind |-> "success", text |-> "route generated"],
                     [kind |-> "dataframe",
                      table |-> select_columns(ordered, cols_to_show(ordered))],
                     [kind |-> "markdown", text |-> "open in maps",
                      first |-> MAX_WAYPOINTS, url |-> url]>>
                   \o overflow_notice(ordered)
                   \o <<[kind |-> "download", file_name |-> "optimized_route.csv",
                         data |-> to_csv(ordered)]>>
  /\ pc' = "done"
  /\ UNCHANGED <<df_raw, df, locations, distance_matrix, solution>>

\* lines 370-377: iloc or insert raises, nothing has been emitted yet
ProjectCrash ==
  /\ pc = "solved"
  /\ solution # None
  /\ LET r == get_route(Len(locations), solution)
     IN  /\ project_raises(df, r)
         /\ route' = r
  /\ pc' = "crashed"
  /\ UNCHANGED <<df_raw, df, locations, distance_matrix, solution,
                 df_ordered, maps_url, out>>

\* the failure branch with a best-effort export of the rows in upload order
ReportFailure_best_effort ==
  /\ pc = "solved"
  /\ solution = None
  /\ out' = <<[kind |-> "error", text |-> "could not solve"],
              [kind |-> "download", file_name |-> "optimized_route.csv",
               data |-> to_csv(df)]>>
  /\ pc' = "done"
  /\ UNCHANGED <<df_raw, df, locations, distance_matrix, solution, route,
                 df_ordered, maps_url>>

\* lines 427-428: the solver returned None
ReportFailure ==
  /\ pc = "solved"
  /\ solution = None
  /\ out' = <<[kind |-> "error", text |-> "could not solve"]>>
  /\ pc' = "done"
  /\ UNCHANGED <<df_raw, df, locations, distance_matrix, solution, route,
                 df_ordered, maps_url>>

Next ==
  \/ NoUpload
  \/ MissingColumns
  \/ BuildMatrix
  \/ MatrixCrash
  \/ Solve
  \/ Project
  \/ ProjectCrash
  \/ ReportFailure

Spec == Init /\ [][Next]_vars

\* ======================================================== properties
\* the uploaded rows that have both coordinates, in upload order
HasBoth(r) == r.cells["Latitude"].t # "nan" /\ r.cells["Longitude"].t # "nan"
Retained == SelectSeq(df_raw.rows, HasBoth)
NumStops == Len(Retained)

\* the solver returned a solution and get_route has run
RouteExtracted == solution # None /\ pc \in {"done", "crashed"}
\* the success branch ran to its end
Projected == solution # None /\ pc = "done"

Occurrences(s, x) == Cardinality({k \in 1..Len(s) : s[k] = x})

\* C1: whenever the solver returns a solution for an upload with N retained
\* stops, the extracted route has N + 2 elements, starts and ends at the
\* depot index 0, and its interior holds every index 1..N exactly once
\* ([0, 0] without stops, [0, 1, 0] with one stop).
C1_RouteIsClosedTour ==
  RouteExtracted =>
    /\ Len(route) = NumStops + 2
    /\ Len(route) = Len(locations) + 1
    /\ route[1] = 0
    /\ route[Len(route)] = 0
    /\ \A i \in 1..NumStops :
         Occurrences(Slice(route, 2, Len(route) - 1), i) = 1
    /\ (NumStops = 0 => route = <<0, 0>>)
    /\ (NumStops = 1 => route = <<0, 1, 0>>)

C1_Witness ==
  /\ RouteExtracted
  /\ NumStops >= 3
  /\ route[2] # 1
  /\ route[3] # route[2] + 1

\* C2: after a successful solve the StopOrder column of df_ordered reads
\* 1, 2, .., N from the first row to the last, N being the number of uploaded
\* rows with both coordinates; a row that misses one never appears.
C2_StopOrderContiguous ==
  Projected =>
    /\ Len(df_ordered.rows) = NumStops
    /\ df_ordered.columns[1] = "StopOrder"
    /\ \A k \in 1..Len(df_ordered.rows) :
         /\ df_ordered.rows[k].cells["StopOrder"] = IntCell(k)
         /\ \E r \in Range(Retained) : r.idx = df_ordered.rows[k].idx
         /\ ~isna(df_ordered.rows[k].cells["Latitude"])
         /\ ~isna(df_ordered.rows[k].cells["Longitude"])

C2_Witness ==
  /\ Projected
  /\ NumStops >= 2
  /\ Len(df_raw.rows) > NumStops

\* C3: the location list is the depot followed by the retained rows in
\* upload order, and the projected row with StopOrder s is the retained row
\* at position route[s] - 1, so that every retained row is in the output
\* exactly once, at the place where the tour visits it.
C3_OffsetAppliedOnce ==
  Projected =>
    /\ locations = <<OFFICE_LOCATION>> \o
         [k \in 1..NumStops |-> <<Retained[k].cells["Latitude"].v,
                                  Retained[k].cells["Longitude"].v>>]
    /\ Len(df_ordered.rows) = NumStops
    /\ \A s \in 1..NumStops :
         LET node == route[s + 1]
             row == df_ordered.rows[s]
         IN  /\ row.cells["StopOrder"].v = s
             /\ row.idx = Retained[(node - 1) + 1].idx
             /\ <<row.cells["Latitude"].v, row.cells["Longitude"].v>>
                  = locations[node + 1]
    /\ \A r \in Range(Retained) :
         Cardinality({s \in 1..Len(df_ordered.rows) :
                        df_ordered.rows[s].idx = r.idx}) = 1

C3_Witness ==
  /\ Projected
  /\ NumStops >= 3
  /\ route[2] # 1
  /\ Len(df_raw.rows) > NumStops
  /\ df_raw.rows[1].idx \notin {r.idx : r \in Range(Retained)}

\* C4: for a list of N >= 1 points the matrix is defined on every pair of
\* 0..N-1, zero on the diagonal and a non-negative integer elsewhere; it is
\* returned whenever every latitude is one geopy accepts.
C4_MatrixShape ==
  /\ distance_matrix # NoMatrix =>
       LET n == Len(locations)
       IN  /\ n >= 1
           /\ DOMAIN distance_matrix = 0..(n - 1)
           /\ \A i \in 0..(n - 1) :
                /\ DOMAIN distance_matrix[i] = 0..(n - 1)
                /\ distance_matrix[i][i] = 0
                /\ \A j \in 0..(n - 1) : distance_matrix[i][j] \in Nat
  /\ (/\ pc # "start"
      /\ df_raw # None
      /\ {"Latitude", "Longitude"} \subseteq Range(df_raw.columns)
      /\ \A r \in Range(Retained) : Abs(r.cells["Latitude"].v) <= 9000000)
     => distance_matrix # NoMatrix

C4_Witness ==
  /\ distance_matrix # NoMatrix
  /\ Len(locations) >= 4
  /\ \E i, j \in 0..(Len(locations) - 1) : i # j /\ distance_matrix[i][j] = 0
  /\ \E i, j \in 0..(Len(locations) - 1) : distance_matrix[i][j] > 10

\* ------------------------------------------------- reading the URL back
IndexOf(s, tok) == CHOOSE k \in 1..Len(s) : s[k] = tok
Between(s, a, b) == Slice(s, IndexOf(s, a) + 1, IndexOf(s, b) - 1)

RECURSIVE Split(_, _)
Split(s, sep) ==
  IF s = <<>> THEN <<>>
  ELSE IF sep \notin Range(s) THEN <<s>>
  ELSE LET at == IndexOf(s, sep)
       IN  <<Slice(s, 1, at - 1)>> \o Split(Slice(s, at + 1, Len(s)), sep)

DigitValue(ch) == CHOOSE d \in 0..9 : Digit(d) = ch

RECURSIVE NumberOf(_)
NumberOf(ds) ==
  IF ds = <<>> THEN 0
  ELSE 10 * NumberOf(Slice(ds, 1, Len(ds) - 1)) + DigitValue(ds[Len(ds)])

RECURSIVE Pow10(_)
Pow10(e) == IF e = 0 THEN 1 ELSE 10 * Pow10(e - 1)

\* the number of 1e-5 degrees a decimal text stands for
ParseFloat(text) ==
  LET neg == text[1] = "-"
      body == IF neg THEN Tail(text) ELSE text
      dot == IndexOf(body, ".")
      whole == Slice(body, 1, dot - 1)
      frac == Slice(body, dot + 1, Len(body))
      mag == NumberOf(whole) * 100000 + NumberOf(frac) * Pow10(5 - Len(frac))
  IN  IF neg THEN -mag ELSE mag

ParseCoord(text) ==
  LET parts == Split(text, ",")
  IN  <<ParseFloat(parts[1]), ParseFloat(parts[2])>>

UrlWaypoints ==
  Split(Between(maps_url, "&waypoints=", "&travelmode=driving"), "|")

Widgets(kind) == SelectSeq(out, LAMBDA w : w.kind = kind)

\* C5: the URL built after a successful solve has the depot as origin and as
\* destination, and its waypoints are the first min(N, 8) projected stops in
\* StopOrder order; there are never more than 8 of them.
C5_UrlWaypointsCapped ==
  Projected =>
    LET wps == UrlWaypoints
    IN  /\ ParseCoord(Between(maps_url, "&origin=", "&destination=")) = OFFICE_LOCATION
        /\ ParseCoord(Between(maps_url, "&destination=", "&waypoints=")) = OFFICE_LOCATION
        /\ Len(wps) <= 8
        /\ Len(wps) = Min(NumStops, 8)
        /\ \A k \in 1..Len(wps) :
             /\ df_ordered.rows[k].cells["StopOrder"].v = k
             /\ ParseCoord(wps[k])
                  = <<df_ordered.rows[k].cells["Latitude"].v,
                      df_ordered.rows[k].cells["Longitude"].v>>
        /\ Len(Widgets("markdown")) = 1
        /\ Widgets("markdown")[1].url = maps_url

C5_Witness ==
  /\ Projected
  /\ NumStops > 8
  /\ route[2] # 1
  /\ Len(UrlWaypoints) = 8

\* C6: the overflow notice is an info message, it is emitted exactly when
\* the number N of projected stops exceeds 8, no error accompanies it, and
\* the export holds all N rows of the projected output.
C6_NoticeIffOverCap ==
  Projected =>
    /\ Len(Widgets("info")) = (IF NumStops > 8 THEN 1 ELSE 0)
    /\ \A k \in 1..Len(Widgets("info")) : Widgets("info")[k].stops = NumStops
    /\ Widgets("error") = <<>>
    /\ Len(Widgets("download")) = 1
    /\ LET csv == Widgets("download")[1].data
       IN  /\ Len(csv.lines) = NumStops
           /\ Len(csv.lines) = Len(df_ordered.rows)
           /\ csv.header = df_ordered.columns
           /\ \A k \in 1..Len(csv.lines) :
                /\ csv.lines[k][1] = fmt_int(k)
                /\ \A c \in 1..Len(csv.header) :
                     csv.lines[k][c] = to_text(df_ordered.rows[k].cells[csv.header[c]])

C6_Witness ==
  /\ Projected
  /\ NumStops > 8
  /\ Len(Widgets("info")) = 1
  /\ Len(Widgets("download")[1].data.lines) = NumStops

LacksCoordinateColumn ==
  df_raw # None /\ ~({"Latitude", "Longitude"} \subseteq Range(df_raw.columns))

\* C7: when the upload lacks the Latitude or the Longitude column, an error
\* naming exactly the missing column(s) is reported, and no matrix, no
\* solve, no route table, no link and no export exist for that upload.
C7_MissingColumnsStop ==
  LacksCoordinateColumn =>
    /\ pc \in {"start", "done"}
    /\ locations = <<>>
    /\ distance_matrix = NoMatrix
    /\ solution = None
    /\ route = <<>>
    /\ df_ordered = NoFrame
    /\ maps_url = <<>>
    /\ (pc = "start" => out = <<>>)
    /\ (pc = "done" =>
          /\ Len(out) = 1
          /\ out[1].kind = "error"
          /\ out[1].text = "missing columns"
          /\ Range(out[1].cols) = {"Latitude", "Longitude"} \ Range(df_raw.columns))

C7_Witness ==
  /\ LacksCoordinateColumn
  /\ pc = "done"
  /\ out[1].kind = "error"
  /\ Len(out[1].cols) = 2
  /\ Len(df_raw.rows) >= 1

NoSolution == solution = None /\ pc \in {"solved", "done"} /\ distance_matrix # NoMatrix

\* C8: when the solver returns no solution the run ends with the failure
\* message alone: no projected table, no URL, no notice, no export.
C8_NoSolutionNoResult ==
  NoSolution =>
    /\ route = <<>>
    /\ df_ordered = NoFrame
    /\ maps_url = <<>>
    /\ (pc = "solved" => out = <<>>)
    /\ (pc = "done" => out = <<[kind |-> "error", text |-> "could not solve"]>>)

C8_Witness ==
  /\ NoSolution
  /\ pc = "done"
  /\ Len(df.rows) >= 2
  /\ Widgets("error") # <<>>

RawRow(idx) == CHOOSE r \in Range(df_raw.rows) : r.idx = idx

\* C10 (as claimed): every row of the projected output and of the export has
\* the field names and field values of the uploaded row it came from, with
\* StopOrder as the only addition.
C10_RecordsUnchanged ==
  Projected =>
    /\ df_ordered.columns = <<"StopOrder">> \o df_raw.columns
    /\ Widgets("download")[1].data.header = <<"StopOrder">> \o df_raw.columns
    /\ \A k \in 1..Len(df_ordered.rows) :
         \A c \in 1..Len(df_raw.columns) :
            LET col == df_raw.columns[c]
                raw == RawRow(df_ordered.rows[k].idx).cells[col]
            IN  /\ df_ordered.rows[k].cells[col] = raw
                /\ Widgets("download")[1].data.lines[k][c + 1] = to_text(raw)
====
